---------------------------- MODULE Spec2Model ----------------------------
(***************************************************************************)
(* A model of src/activity.c (HAProxy activity measurement):               *)
(*   - the shared word `profiling` and the commands that change its mode   *)
(*     bits (cfg_parse_prof_tasks, cli_parse_set_profiling);               *)
(*   - the per-thread record activity[tid] and report_stolen_time();       *)
(*   - the table sched_activity[] and the report                           *)
(*     cli_io_handler_show_profiling().                                    *)
(* The specifications share the variables: SpecMode, SpecCfg, SpecCli (and *)
(* SpecCliFair), SpecStolen, SpecReport, SpecShowFair and SpecRow.         *)
(***************************************************************************)
EXTENDS Integers, Sequences, FiniteSets, TLC

(***************************************************************************)
(* Bounds of the model.                                                    *)
(***************************************************************************)
\* number of concurrent CLI sessions issuing "set profiling"
NReq == 2
\* the non-mode bits of `profiling` take the values 0..MaxOther
MaxOther == 1
\* number of running threads (each has its own tid)
NThreads == 2
\* the 64-bit counters of the code wrap at 2^64; the model's wrap at CounterMod
CounterMod == 4
\* a stolen-time sample is in 1..MaxStolen
MaxStolen == 3
\* number of slots of sched_activity[] in the model (256 in the code)
TableSize == 2
\* the scheduler stops counting the calls of a slot at MaxCalls
MaxCalls == 2
\* the names given to the row format have 1..MaxNameLen characters
MaxNameLen == 50
\* number of CLI sessions issuing "set profiling" beside the writer of the
\* other bits, in SpecCli (NReq of them in SpecMode)
NCli == 1

(***************************************************************************)
(* The mode values packed in the low bits of `profiling`                   *)
(* (haproxy/activity-t.h, listed in this order by the data model).         *)
(***************************************************************************)
HA_PROF_TASKS_OFF == 0
HA_PROF_TASKS_AOFF == 1
HA_PROF_TASKS_AON == 2
HA_PROF_TASKS_ON == 3
HA_PROF_TASKS_MASK == 3

\* w & HA_PROF_TASKS_MASK (the mask is 2^k - 1)
ModeBits(w) == w % (HA_PROF_TASKS_MASK + 1)
\* w & ~HA_PROF_TASKS_MASK
OtherBits(w) == w - ModeBits(w)
\* (w & ~HA_PROF_TASKS_MASK) | m, for a mode value m within the mask
WithMode(w, m) == OtherBits(w) + m
\* the word whose non-mode bits hold v and whose mode bits are m
Word(v, m) == v * (HA_PROF_TASKS_MASK + 1) + m

Modes == {HA_PROF_TASKS_OFF, HA_PROF_TASKS_AOFF, HA_PROF_TASKS_AON, HA_PROF_TASKS_ON}
Req == 1..NReq
Values == {"on", "auto", "off", "bogus"}
Accepted == {"on", "auto", "off"}

VARIABLES
  profiling,   \* the shared word (line 24)
  phase,       \* "config" while the configuration is parsed, then "run"
  cfgret,      \* while the configuration is parsed: what the last
               \* cfg_parse_prof_tasks returned (0 or -1), 1 if there was none
  cfg_pc,      \* cfg_parse_prof_tasks: "idle", or "assign" (inside the
               \* assignment of line 52, 54 or 56, `profiling` read, not written)
  cfg_args,    \* args[1] of the last "profiling.tasks" line and whether
               \* another argument followed it; NoArgs if there is none
  cfg_old,     \* the word `profiling` held when that line was parsed
  err,         \* the message left in *err by that line, "none" if none
  otherLast,   \* the non-mode bits as last written by the other writers
  mode0,       \* the mode bits when the current group of requests began
  pc,          \* per session: "idle", "cas" (inside a CAS loop), "done"
  arg,         \* per session: args[3] of the accepted command in progress
  old,         \* per session: the local `old`
  new,         \* per session: the word its successful CAS wrote
  ret,         \* per session: "ok", "denied", "err_tasks", "err_value", "none"
  retried      \* per session: a CAS of the command in progress has failed

cfgVars == <<cfg_pc, cfg_args, cfg_old, err>>

modeVars == <<profiling, phase, cfgret, cfgVars, otherLast, mode0, pc, arg, old, new,
              ret, retried>>

VARIABLES
  activity,    \* per thread: the record activity[tid] (line 28)
  rst_pc,      \* per thread: where it is in report_stolen_time
  rst_stolen,  \* per thread: the argument `stolen` of the call in progress, else 0
  rst_tmp,     \* per thread: the value of cpust_total loaded by line 38, until stored
  recorded     \* per thread: the sum of the samples it passed, modulo CounterMod

stolenVars == <<activity, rst_pc, rst_stolen, rst_tmp, recorded>>

VARIABLES
  sched_activity, \* the table (line 31), indexed from 0
  chn_flags,      \* write side of the output channel: "open", "write_error", "shutw"
  show_pc,        \* the report: "idle", or "copy" (inside memcpy)
  show_i,         \* the next slot memcpy copies
  str,            \* the local `str`: the label of the mode read at line 129
  tmp_activity,   \* the local copy of the table
  trash,          \* the chunk the report is written in, a sequence of items
  last,           \* what the last invocation did, kept until the table or the
                  \* mode changes; NoRun if there is none
  prev,           \* what the invocation before it did, if it returned not-done
                  \* (the last one is its retry), kept as long
  clean,          \* neither the table nor the mode has changed since the last
                  \* invocation began
  rx_room_blk     \* the stream interface waits for room in the channel: set by
                  \* si_rx_room_blk (line 170) until the driver calls the
                  \* handler again

reportVars == <<sched_activity, chn_flags, show_pc, show_i, str, tmp_activity,
                trash, last, prev, clean, rx_room_blk>>

VARIABLES
  row_in,      \* a name length and a call count given to the row format
  row_out      \* the start of the row printed for them (line 160)

rowVars == <<row_in, row_out>>

vars == <<modeVars, stolenVars, reportVars, rowVars>>

Idx == 0..(TableSize - 1)

Thr == 1..NThreads

\* NewWord with the test of line 83 written == instead of >=
NewWordEq(a, o) ==
  CASE a = "on"   -> WithMode(o, HA_PROF_TASKS_ON)
    [] a = "auto" -> IF ModeBits(o) = HA_PROF_TASKS_AON
                     THEN WithMode(o, HA_PROF_TASKS_AON)
                     ELSE WithMode(o, HA_PROF_TASKS_AOFF)
    [] a = "off"  -> WithMode(o, HA_PROF_TASKS_OFF)

\* NewWord with the two tiers of `auto` exchanged
NewWordFlip(a, o) ==
  CASE a = "on"   -> WithMode(o, HA_PROF_TASKS_ON)
    [] a = "auto" -> IF ModeBits(o) >= HA_PROF_TASKS_AON
                     THEN WithMode(o, HA_PROF_TASKS_AOFF)
                     ELSE WithMode(o, HA_PROF_TASKS_AON)
    [] a = "off"  -> WithMode(o, HA_PROF_TASKS_OFF)

(***************************************************************************)
(* The word a "set profiling tasks <a>" request computes from `o`          *)
(* (lines 75, 83-86, 91).                                                   *)
(***************************************************************************)
NewWord(a, o) ==
  CASE a = "on"   -> WithMode(o, HA_PROF_TASKS_ON)
    [] a = "auto" -> IF ModeBits(o) >= HA_PROF_TASKS_AON
                     THEN WithMode(o, HA_PROF_TASKS_AON)
                     ELSE WithMode(o, HA_PROF_TASKS_AOFF)
    [] a = "off"  -> WithMode(o, HA_PROF_TASKS_OFF)

\* no "profiling.tasks" line to speak of
NoArgs == [arg1 |-> "none", extra |-> FALSE]

InitMode ==
  /\ profiling = HA_PROF_TASKS_AOFF
  /\ phase = "config"
  /\ cfgret = 1
  /\ cfg_pc = "idle"
  /\ cfg_args = NoArgs
  /\ cfg_old = 0
  /\ err = "none"
  /\ otherLast = 0
  /\ mode0 = HA_PROF_TASKS_AOFF
  /\ pc = [r \in Req |-> "idle"]
  /\ arg = [r \in Req |-> "none"]
  /\ old = [r \in Req |-> 0]
  /\ new = [r \in Req |-> 0]
  /\ ret = [r \in Req |-> "none"]
  /\ retried = [r \in Req |-> FALSE]

\* CfgWord choosing the tier of `auto` as the command of lines 83-86 does
CfgWordLikeCli(a, o) == NewWord(a, o)

\* lines 52, 54, 56: the word the keyword assigns, computed from the word o
CfgWord(a, o) ==
  CASE a = "on"   -> WithMode(o, HA_PROF_TASKS_ON)
    [] a = "auto" -> WithMode(o, HA_PROF_TASKS_AOFF)
    [] a = "off"  -> WithMode(o, HA_PROF_TASKS_OFF)

\* cfg_parse_prof_tasks without the test of line 48
cfg_parse_unchecked(a, extra) ==
  /\ phase = "config"
  /\ cfg_pc = "idle"
  /\ cfg_args' = [arg1 |-> a, extra |-> extra]
  /\ cfg_old' = profiling
  /\ IF a \in Accepted
     THEN /\ cfg_pc' = "assign"
          /\ err' = "none"
          /\ UNCHANGED cfgret
     ELSE /\ cfgret' = -1
          /\ err' = "expects on, auto or off"
          /\ UNCHANGED cfg_pc
  /\ UNCHANGED <<profiling, phase, otherLast, mode0, pc, arg, old, new, ret, retried>>

(***************************************************************************)
(* cfg_parse_prof_tasks (lines 44-62): the keyword "profiling.tasks" of    *)
(* the global section.  The configuration is parsed before any thread or  *)
(* CLI session exists.  `extra` says that a second argument follows.  A    *)
(* rejected line returns -1 with a message in *err (too_many_args writes   *)
(* its own); an accepted one reads `profiling` for the plain assignment of *)
(* line 52, 54 or 56, which cfg_assign completes.                          *)
(***************************************************************************)
cfg_parse_prof_tasks(a, extra) ==
  /\ phase = "config"
  /\ cfg_pc = "idle"
  /\ cfg_args' = [arg1 |-> a, extra |-> extra]
  /\ cfg_old' = profiling
  /\ IF extra
     THEN /\ cfgret' = -1
          /\ err' = "too many args"
          /\ UNCHANGED cfg_pc
     ELSE IF a \in Accepted
     THEN /\ cfg_pc' = "assign"
          /\ err' = "none"
          /\ UNCHANGED cfgret
     ELSE /\ cfgret' = -1
          /\ err' = "expects on, auto or off"
          /\ UNCHANGED cfg_pc
  /\ UNCHANGED <<profiling, phase, otherLast, mode0, pc, arg, old, new, ret, retried>>

\* the store of the assignment of line 52, 54 or 56, and the return of line 61
cfg_assign ==
  /\ phase = "config"
  /\ cfg_pc = "assign"
  /\ profiling' = CfgWord(cfg_args.arg1, cfg_old)
  /\ cfgret' = 0
  /\ cfg_pc' = "idle"
  /\ UNCHANGED <<cfg_args, cfg_old, err>>
  /\ UNCHANGED <<phase, otherLast, mode0, pc, arg, old, new, ret, retried>>

(***************************************************************************)
(* Another keyword of the configuration sets the non-mode bits to v: it is *)
(* parsed after the previous line has returned.                            *)
(***************************************************************************)
other_cfg_keyword(v) ==
  /\ phase = "config"
  /\ cfg_pc = "idle"
  /\ v # otherLast
  /\ profiling' = Word(v, ModeBits(profiling))
  /\ otherLast' = v
  /\ cfg_args' = NoArgs
  /\ cfg_old' = 0
  /\ err' = "none"
  /\ UNCHANGED <<cfg_pc, cfgret>>
  /\ UNCHANGED <<phase, mode0, pc, arg, old, new, ret, retried>>

(***************************************************************************)
(* A writer of the non-mode bits running while the keyword is between the  *)
(* read and the store of its assignment (SpecCfg only).                    *)
(***************************************************************************)
concurrent_cfg_writer(v) ==
  /\ phase = "config"
  /\ cfg_pc = "assign"
  /\ v # otherLast
  /\ profiling' = Word(v, ModeBits(profiling))
  /\ otherLast' = v
  /\ UNCHANGED <<phase, cfgret, cfgVars, mode0, pc, arg, old, new, ret, retried>>

\* the configuration is loaded: the threads and the CLI start
start_runtime ==
  /\ phase = "config"
  /\ cfg_pc = "idle"
  /\ phase' = "run"
  /\ cfgret' = 1
  /\ cfg_args' = NoArgs
  /\ cfg_old' = 0
  /\ err' = "none"
  /\ mode0' = ModeBits(profiling)
  /\ UNCHANGED <<cfg_pc, profiling, otherLast, pc, arg, old, new, ret, retried>>

\* cli_parse_set_profiling testing the arguments before the level of line 67
cli_parse_args_first(r, admin, a2, a3) ==
  /\ phase = "run"
  /\ pc[r] = "idle"
  /\ IF a2 # "tasks"
     THEN /\ pc' = [pc EXCEPT ![r] = "done"]
          /\ ret' = [ret EXCEPT ![r] = "err_tasks"]
          /\ UNCHANGED <<arg, old>>
     ELSE IF a3 \in Accepted
     THEN /\ pc' = [pc EXCEPT ![r] = "cas"]
          /\ arg' = [arg EXCEPT ![r] = a3]
          /\ old' = [old EXCEPT ![r] = profiling]
          /\ UNCHANGED ret
     ELSE IF ~admin
     THEN /\ pc' = [pc EXCEPT ![r] = "done"]
          /\ ret' = [ret EXCEPT ![r] = "denied"]
          /\ UNCHANGED <<arg, old>>
     ELSE /\ pc' = [pc EXCEPT ![r] = "done"]
          /\ ret' = [ret EXCEPT ![r] = "err_value"]
          /\ UNCHANGED <<arg, old>>
  /\ UNCHANGED <<profiling, phase, cfgret, cfgVars, otherLast, mode0, new, retried>>

(***************************************************************************)
(* cli_parse_set_profiling (lines 65-98), first part: the checks of lines  *)
(* 67-71, the choice of the branch and the read `old = profiling` of lines *)
(* 74, 79, 90.  A rejected command returns at once.                        *)
(***************************************************************************)
cli_parse_set_profiling(r, admin, a2, a3) ==
  /\ phase = "run"
  /\ pc[r] = "idle"
  /\ IF ~admin
     THEN /\ pc' = [pc EXCEPT ![r] = "done"]
          /\ ret' = [ret EXCEPT ![r] = "denied"]
          /\ UNCHANGED <<arg, old>>
     ELSE IF a2 # "tasks"
     THEN /\ pc' = [pc EXCEPT ![r] = "done"]
          /\ ret' = [ret EXCEPT ![r] = "err_tasks"]
          /\ UNCHANGED <<arg, old>>
     ELSE IF a3 \in Accepted
     THEN /\ pc' = [pc EXCEPT ![r] = "cas"]
          /\ arg' = [arg EXCEPT ![r] = a3]
          /\ old' = [old EXCEPT ![r] = profiling]
          /\ UNCHANGED ret
     ELSE /\ pc' = [pc EXCEPT ![r] = "done"]
          /\ ret' = [ret EXCEPT ![r] = "err_value"]
          /\ UNCHANGED <<arg, old>>
  /\ UNCHANGED <<profiling, phase, cfgret, cfgVars, otherLast, mode0, new, retried>>

\* cli_set_cas with the compare left out: the word computed from `old` is stored
cli_set_store(r) ==
  /\ pc[r] = "cas"
  /\ new' = [new EXCEPT ![r] = NewWord(arg[r], old[r])]
  /\ profiling' = NewWord(arg[r], old[r])
  /\ pc' = [pc EXCEPT ![r] = "done"]
  /\ ret' = [ret EXCEPT ![r] = "ok"]
  /\ UNCHANGED <<old, retried, phase, cfgret, cfgVars, otherLast, mode0, arg>>

\* cli_set_cas with a CAS that, when it fails, leaves `old` as it was
cli_set_cas_no_refresh(r) ==
  /\ pc[r] = "cas"
  /\ IF profiling = old[r]
     THEN /\ profiling' = NewWord(arg[r], old[r])
          /\ new' = [new EXCEPT ![r] = NewWord(arg[r], old[r])]
          /\ pc' = [pc EXCEPT ![r] = "done"]
          /\ ret' = [ret EXCEPT ![r] = "ok"]
          /\ UNCHANGED <<old, retried>>
     ELSE /\ retried' = [retried EXCEPT ![r] = TRUE]
          /\ UNCHANGED <<profiling, new, pc, ret, old>>
  /\ UNCHANGED <<phase, cfgret, cfgVars, otherLast, mode0, arg>>

(***************************************************************************)
(* One turn of the loops of lines 75, 82-87 and 91: the new word is        *)
(* computed from `old` and _HA_ATOMIC_CAS(&profiling, &old, new) is tried. *)
(* A failed CAS stores the word it found into `old`; a successful one ends *)
(* the command (line 97).                                                  *)
(***************************************************************************)
cli_set_cas(r) ==
  /\ pc[r] = "cas"
  /\ IF profiling = old[r]
     THEN /\ profiling' = NewWord(arg[r], old[r])
          /\ new' = [new EXCEPT ![r] = NewWord(arg[r], old[r])]
          /\ pc' = [pc EXCEPT ![r] = "done"]
          /\ ret' = [ret EXCEPT ![r] = "ok"]
          /\ UNCHANGED <<old, retried>>
     ELSE /\ old' = [old EXCEPT ![r] = profiling]
          /\ retried' = [retried EXCEPT ![r] = TRUE]
          /\ UNCHANGED <<profiling, new, pc, ret>>
  /\ UNCHANGED <<phase, cfgret, cfgVars, otherLast, mode0, arg>>

(***************************************************************************)
(* Every command issued so far has returned (line 97): the sessions are    *)
(* ready for a new group of commands.                                      *)
(***************************************************************************)
cli_next_commands ==
  /\ \A r \in Req : pc[r] \in {"idle", "done"}
  /\ \E r \in Req : pc[r] = "done"
  /\ pc' = [r \in Req |-> "idle"]
  /\ arg' = [r \in Req |-> "none"]
  /\ old' = [r \in Req |-> 0]
  /\ new' = [r \in Req |-> 0]
  /\ ret' = [r \in Req |-> "none"]
  /\ retried' = [r \in Req |-> FALSE]
  /\ mode0' = ModeBits(profiling)
  /\ UNCHANGED <<profiling, phase, cfgret, cfgVars, otherLast>>

(***************************************************************************)
(* Another writer of the word: it atomically replaces the non-mode bits    *)
(* by v and leaves the mode bits.                                          *)
(***************************************************************************)
other_writer(v) ==
  /\ phase = "run"
  /\ v # otherLast
  /\ profiling' = Word(v, ModeBits(profiling))
  /\ otherLast' = v
  /\ UNCHANGED <<phase, cfgret, cfgVars, mode0, pc, arg, old, new, ret, retried>>

(***************************************************************************)
(* One command line for each way through lines 67-95: denied, another      *)
(* subcommand, another value, and the three accepted values.  Every other  *)
(* command line takes one of these ways and leaves the same state.         *)
(***************************************************************************)
Commands ==
  {<<FALSE, "tasks", "on">>, <<TRUE, "memory", "on">>, <<TRUE, "tasks", "bogus">>,
   <<TRUE, "tasks", "on">>, <<TRUE, "tasks", "auto">>, <<TRUE, "tasks", "off">>}

NextMode ==
  \/ \E a \in Values, extra \in BOOLEAN :
        cfg_parse_prof_tasks(a, extra) /\ UNCHANGED <<stolenVars, reportVars, rowVars>>
  \/ cfg_assign /\ UNCHANGED <<stolenVars, reportVars, rowVars>>
  \/ \E v \in 0..MaxOther : other_cfg_keyword(v) /\ UNCHANGED <<stolenVars, reportVars, rowVars>>
  \/ start_runtime /\ UNCHANGED <<stolenVars, reportVars, rowVars>>
  \/ \E r \in Req, c \in Commands :
        cli_parse_set_profiling(r, c[1], c[2], c[3]) /\ UNCHANGED <<stolenVars, reportVars, rowVars>>
  \/ \E r \in Req : cli_set_cas(r) /\ UNCHANGED <<stolenVars, reportVars, rowVars>>
  \/ cli_next_commands /\ UNCHANGED <<stolenVars, reportVars, rowVars>>
  \/ \E v \in 0..MaxOther : other_writer(v) /\ UNCHANGED <<stolenVars, reportVars, rowVars>>

(***************************************************************************)
(* The per-thread records (line 28) and report_stolen_time (lines 36-41).  *)
(* `tid` is the calling thread's own index.  update_freq_ctr and           *)
(* update_freq_ctr_period are the decaying counters of haproxy/freq_ctr.h: *)
(* each is kept as the sum of what was fed into it.                        *)
(***************************************************************************)
InitStolen ==
  /\ activity = [t \in Thr |-> [cpust_total |-> 0, cpust_1s |-> 0, cpust_15s |-> 0]]
  /\ rst_pc = [t \in Thr |-> "idle"]
  /\ rst_stolen = [t \in Thr |-> 0]
  /\ rst_tmp = [t \in Thr |-> 0]
  /\ recorded = [t \in Thr |-> 0]

\* the addition of two 64-bit unsigned values
AddU64(a, b) == (a + b) % CounterMod

\* freq_ctr: accumulate a sample
update_freq_ctr(ctr, inc) == AddU64(ctr, inc)

\* freq_ctr: accumulate a sample over a window of `period` ms
update_freq_ctr_period(ctr, period, inc) == AddU64(ctr, inc)

\* the record every thread would address if the index were a fixed one
SharedRecord(tid) == 1

\* the record the thread of index `tid` addresses: activity[tid]
OwnRecord(tid) == tid

\* thread t enters report_stolen_time(s) and loads activity[tid].cpust_total
rst_load(t, s) ==
  /\ rst_pc[t] = "idle"
  /\ rst_pc' = [rst_pc EXCEPT ![t] = "loaded"]
  /\ rst_stolen' = [rst_stolen EXCEPT ![t] = s]
  /\ rst_tmp' = [rst_tmp EXCEPT ![t] = activity[OwnRecord(t)].cpust_total]
  /\ recorded' = [recorded EXCEPT ![t] = AddU64(recorded[t], s)]
  /\ UNCHANGED activity

\* line 38: the sum is stored into activity[tid].cpust_total
rst_store(t) ==
  /\ rst_pc[t] = "loaded"
  /\ activity' = [activity EXCEPT ![OwnRecord(t)].cpust_total =
                                    AddU64(rst_tmp[t], rst_stolen[t])]
  /\ rst_pc' = [rst_pc EXCEPT ![t] = "ctr_1s"]
  /\ rst_tmp' = [rst_tmp EXCEPT ![t] = 0]
  /\ UNCHANGED <<rst_stolen, recorded>>

\* line 39
rst_ctr_1s(t) ==
  /\ rst_pc[t] = "ctr_1s"
  /\ activity' = [activity EXCEPT ![OwnRecord(t)].cpust_1s =
                      update_freq_ctr(activity[OwnRecord(t)].cpust_1s, rst_stolen[t])]
  /\ rst_pc' = [rst_pc EXCEPT ![t] = "ctr_15s"]
  /\ UNCHANGED <<rst_stolen, rst_tmp, recorded>>

\* line 40, and the return
rst_ctr_15s(t) ==
  /\ rst_pc[t] = "ctr_15s"
  /\ activity' = [activity EXCEPT ![OwnRecord(t)].cpust_15s =
                      update_freq_ctr_period(activity[OwnRecord(t)].cpust_15s, 15000,
                                             rst_stolen[t])]
  /\ rst_pc' = [rst_pc EXCEPT ![t] = "idle"]
  /\ rst_stolen' = [rst_stolen EXCEPT ![t] = 0]
  /\ UNCHANGED <<rst_tmp, recorded>>

NextStolen ==
  \/ \E t \in Thr, s \in 1..MaxStolen : rst_load(t, s) /\ UNCHANGED <<modeVars, reportVars, rowVars>>
  \/ \E t \in Thr : rst_store(t) /\ UNCHANGED <<modeVars, reportVars, rowVars>>
  \/ \E t \in Thr : rst_ctr_1s(t) /\ UNCHANGED <<modeVars, reportVars, rowVars>>
  \/ \E t \in Thr : rst_ctr_15s(t) /\ UNCHANGED <<modeVars, reportVars, rowVars>>

(***************************************************************************)
(* The table sched_activity[] (line 31) and the report                     *)
(* cli_io_handler_show_profiling (lines 116-174).                          *)
(***************************************************************************)
ZeroEntry == [func |-> 0, calls |-> 0, cpu_time |-> 0, lat_time |-> 0]

\* no invocation to speak of
NoRun == [ran |-> FALSE, ret |-> -1, flags |-> "none", putchk |-> "none",
          label |-> "none", ranked |-> <<>>, tried |-> <<>>, handed |-> <<>>,
          gave |-> FALSE, wake |-> FALSE]

\* the content of the scratch chunk when the report does not own it
Scratch == <<[kind |-> "scratch"]>>

InitReport ==
  /\ sched_activity = [i \in Idx |-> ZeroEntry]
  /\ chn_flags = "open"
  /\ show_pc = "idle"
  /\ show_i = 0
  /\ str = "none"
  /\ tmp_activity = [i \in Idx |-> ZeroEntry]
  /\ trash = Scratch
  /\ last = NoRun
  /\ prev = NoRun
  /\ clean = FALSE
  /\ rx_room_blk = FALSE

\* the table or the mode has changed: earlier invocations are no longer kept
Changed ==
  /\ clean' = FALSE
  /\ last' = NoRun
  /\ prev' = NoRun

(***************************************************************************)
(* The scheduler accounts one call of the function hashed to slot i: it    *)
(* claims the slot (slot 0 keeps the identity "none"), adds 1 to calls and *)
(* the call's latency and run time to lat_time and cpu_time.               *)
(***************************************************************************)
sched_call(i) ==
  /\ phase = "run"
  /\ sched_activity[i].calls < MaxCalls
  /\ sched_activity' = [sched_activity EXCEPT ![i] =
        [func     |-> i,
         calls    |-> @.calls + 1,
         cpu_time |-> @.cpu_time + 2 * i + 1 + @.calls,
         lat_time |-> @.lat_time + i + 1]]
  /\ Changed
  /\ UNCHANGED <<chn_flags, show_pc, show_i, str, tmp_activity, trash, rx_room_blk>>

\* the write side of the report's channel fails or is shut, between invocations
chn_fail(f) ==
  /\ phase = "run"
  /\ show_pc = "idle"
  /\ chn_flags = "open"
  /\ chn_flags' = f
  /\ UNCHANGED <<sched_activity, show_pc, show_i, str, tmp_activity, trash,
                 last, prev, clean, rx_room_blk>>

\* Label with the labels of On and Off exchanged
LabelSwapped(m) ==
  CASE m = HA_PROF_TASKS_AOFF -> "auto-off"
    [] m = HA_PROF_TASKS_AON  -> "auto-on"
    [] m = HA_PROF_TASKS_ON   -> "off"
    [] OTHER                  -> "on"

\* lines 129-134
Label(m) ==
  CASE m = HA_PROF_TASKS_AOFF -> "auto-off"
    [] m = HA_PROF_TASKS_AON  -> "auto-on"
    [] m = HA_PROF_TASKS_ON   -> "on"
    [] OTHER                  -> "off"

\* cmp_sched_activity with the two results exchanged
cmp_ascending(l, r) ==
  IF l.calls > r.calls THEN 1
  ELSE IF l.calls < r.calls THEN -1
  ELSE 0

\* lines 100-111
cmp_sched_activity(l, r) ==
  IF l.calls > r.calls THEN -1
  ELSE IF l.calls < r.calls THEN 1
  ELSE 0

\* the bijections from 1..TableSize to the slots
Orders == {p \in [1..TableSize -> Idx] : \A i, j \in 1..TableSize : p[i] = p[j] => i = j}

\* qsort leaving the array as it is
qsort_skipped(t) == {[k \in 1..TableSize |-> t[k - 1]]}

(***************************************************************************)
(* qsort(tmp_activity, 256, ..., cmp_sched_activity), line 137: the array  *)
(* rearranged so that no element compares greater than a later one.  The   *)
(* order of elements that compare equal is unspecified: every such         *)
(* arrangement is a possible result.                                       *)
(***************************************************************************)
qsort(t) ==
  {s \in {[k \in 1..TableSize |-> t[p[k]]] : p \in Orders} :
     \A i, j \in 1..TableSize : i < j => cmp_sched_activity(s[i], s[j]) <= 0}

\* the number of characters of n printed by %llu
RECURSIVE Digits(_)
Digits(n) == IF n < 10 THEN 1 ELSE 1 + Digits(n \div 10)

\* lines 157-159: the field width given to %*llu for a name of n characters
FieldWidth(n) == IF 35 - n < 1 THEN 1 ELSE 35 - n

\* "%*llu": the spaces printed before the digits of v in a field of width w
Padding(w, v) == IF w > Digits(v) THEN w - Digits(v) ELSE 0

\* the length of the name written in name_buffer: "other" (line 150), or the
\* symbol resolve_sym_name finds for the identity f (line 152)
NameLen(f) ==
  CASE f = 0 -> 5
    [] f = 1 -> 35
    [] f = 2 -> 50
    [] OTHER -> 12

\* the 64-bit division of lines 163 and 165; a zero divisor traps
DivFault == -1
Div64(a, b) == IF b = 0 THEN DivFault ELSE a \div b

\* line 160: "  %s%*llu" for a name of n characters and the count v
RowHead(n, v) ==
  [indent |-> 2, name_chars |-> n, spaces |-> Padding(FieldWidth(n), v),
   digits |-> Digits(v)]

\* lines 147-165: the row of one entry of the copy
Row(e) ==
  [kind    |-> "row",
   name    |-> IF e.func = 0 THEN "other" ELSE "sym",
   func    |-> e.func,
   head    |-> RowHead(NameLen(e.func), e.calls),
   calls   |-> e.calls,
   cpu_tot |-> e.cpu_time,
   cpu_avg |-> Div64(e.cpu_time, e.calls),
   lat_tot |-> e.lat_time,
   lat_avg |-> Div64(e.lat_time, e.calls)]

\* the loop of line 146 without the test of tmp_activity[i].calls
RECURSIVE AllRows(_, _)
AllRows(s, i) ==
  IF i > TableSize THEN <<>> ELSE <<Row(s[i])>> \o AllRows(s, i + 1)

\* the loop of line 146 from index i on: it ends at the first entry without calls
RECURSIVE Rows(_, _)
Rows(s, i) ==
  IF i > TableSize \/ s[i].calls = 0 THEN <<>>
  ELSE <<Row(s[i])>> \o Rows(s, i + 1)

\* chunk_printf writes from the start of the chunk, chunk_appendf at its end
chunk_printf(c, item) == <<item>>
chunk_appendf(c, item) == Append(c, item)
chunk_append_all(c, items) == c \o items

\* lines 139-166: the text for the label l and the ranked copy s
Render(c, l, s) ==
  chunk_append_all(
    chunk_appendf(chunk_printf(c, [kind |-> "mode", label |-> l]),
                  [kind |-> "columns"]),
    Rows(s, 1))

PutOutcomes == {"accepted", "would_block", "closed"}

\* show_begin without the test of line 124
show_begin_unchecked ==
  /\ phase = "run"
  /\ show_pc = "idle"
  /\ prev' = IF clean /\ last.ret = 0 THEN last ELSE NoRun
  /\ clean' = TRUE
  /\ rx_room_blk' = FALSE
  /\ last' = NoRun
  /\ trash' = <<>>
  /\ str' = Label(ModeBits(profiling))
  /\ show_pc' = "copy"
  /\ show_i' = 0
  /\ UNCHANGED tmp_activity
  /\ UNCHANGED <<modeVars, stolenVars, rowVars, sched_activity, chn_flags>>

\* the handler is entered and the channel is tested, then the mode is read
\* (lines 119-134)
show_begin ==
  /\ phase = "run"
  /\ show_pc = "idle"
  /\ prev' = IF clean /\ last.ret = 0 THEN last ELSE NoRun
  /\ clean' = TRUE
  /\ rx_room_blk' = FALSE
  /\ IF chn_flags \in {"write_error", "shutw"}
     THEN /\ last' = [NoRun EXCEPT !.ran = TRUE, !.ret = 1, !.flags = chn_flags]
          /\ UNCHANGED <<show_pc, show_i, str, tmp_activity, trash>>
     ELSE /\ last' = NoRun
          /\ trash' = <<>>
          /\ str' = Label(ModeBits(profiling))
          /\ show_pc' = "copy"
          /\ show_i' = 0
          /\ UNCHANGED tmp_activity
  /\ UNCHANGED <<modeVars, stolenVars, rowVars, sched_activity, chn_flags>>

\* memcpy (line 136) copies one more slot, not the last one
show_copy ==
  /\ show_pc = "copy"
  /\ show_i < TableSize - 1
  /\ tmp_activity' = [tmp_activity EXCEPT ![show_i] = sched_activity[show_i]]
  /\ show_i' = show_i + 1
  /\ UNCHANGED <<show_pc, str, trash, last, prev, clean, rx_room_blk>>
  /\ UNCHANGED <<modeVars, stolenVars, rowVars, sched_activity, chn_flags>>

\* Blocked, never asking for room
BlockedNever(o) == FALSE

\* lines 168-170: si_rx_room_blk is called when ci_putchk answers -1
Blocked(o) == o = "would_block"

\* Outcome, returning done whatever ci_putchk answers
OutcomeAlwaysDone(o, l, s, buf) ==
  [ran |-> TRUE, ret |-> 1,
   flags |-> chn_flags, putchk |-> o, label |-> l, ranked |-> s,
   tried |-> buf,
   handed |-> IF o = "accepted" THEN buf ELSE <<>>,
   gave |-> (o = "accepted"),
   wake |-> Blocked(o)]

\* lines 168-173: what the invocation did, for the answer o of ci_putchk
Outcome(o, l, s, buf) ==
  [ran |-> TRUE, ret |-> IF o = "would_block" THEN 0 ELSE 1,
   flags |-> chn_flags, putchk |-> o, label |-> l, ranked |-> s,
   tried |-> buf,
   handed |-> IF o = "accepted" THEN buf ELSE <<>>,
   gave |-> (o = "accepted"),
   wake |-> Blocked(o)]

\* the copy once memcpy has copied its last slot
Copied == [tmp_activity EXCEPT ![show_i] = sched_activity[show_i]]

\* show_finish sorting the table itself instead of the copy
show_finish_in_place(o) ==
  /\ show_pc = "copy"
  /\ show_i = TableSize - 1
  /\ \E s \in qsort(Copied) :
        /\ last' = Outcome(o, str, s, Render(trash, str, s))
        /\ sched_activity' = [i \in Idx |-> s[i + 1]]
  /\ trash' = Scratch
  /\ tmp_activity' = [i \in Idx |-> ZeroEntry]
  /\ str' = "none"
  /\ show_pc' = "idle"
  /\ show_i' = 0
  /\ rx_room_blk' = Blocked(o)
  /\ UNCHANGED <<prev, clean>>
  /\ UNCHANGED <<modeVars, stolenVars, rowVars, chn_flags>>

(***************************************************************************)
(* memcpy copies the last slot; then, with no other access to shared       *)
(* data, lines 137-173: the copy is sorted, the text is written in trash   *)
(* and handed to the channel; o is the answer of ci_putchk: "accepted",    *)
(* "would_block" (-1) or "closed" (another failure).  On return the locals *)
(* are gone and the scratch chunk is anybody's.                            *)
(***************************************************************************)
show_finish(o) ==
  /\ show_pc = "copy"
  /\ show_i = TableSize - 1
  /\ \E s \in qsort(Copied) :
        last' = Outcome(o, str, s, Render(trash, str, s))
  /\ trash' = Scratch
  /\ tmp_activity' = [i \in Idx |-> ZeroEntry]
  /\ str' = "none"
  /\ show_pc' = "idle"
  /\ show_i' = 0
  /\ rx_room_blk' = Blocked(o)
  /\ UNCHANGED <<prev, clean>>
  /\ UNCHANGED <<modeVars, stolenVars, rowVars, sched_activity, chn_flags>>

\* a step of the mode commands, seen from the report
ModeStep(A) ==
  /\ A
  /\ IF profiling' # profiling
     THEN Changed
     ELSE UNCHANGED <<last, prev, clean>>
  /\ UNCHANGED <<sched_activity, chn_flags, show_pc, show_i, str, tmp_activity, trash,
                 rx_room_blk>>

NextReport ==
  \/ start_runtime /\ UNCHANGED <<stolenVars, reportVars, rowVars>>
  \/ \E a3 \in Accepted :
        ModeStep(cli_parse_set_profiling(1, TRUE, "tasks", a3)) /\ UNCHANGED <<stolenVars, rowVars>>
  \/ ModeStep(cli_set_cas(1)) /\ UNCHANGED <<stolenVars, rowVars>>
  \/ ModeStep(cli_next_commands) /\ UNCHANGED <<stolenVars, rowVars>>
  \/ \E i \in Idx : sched_call(i) /\ UNCHANGED <<modeVars, stolenVars, rowVars>>
  \/ \E f \in {"write_error", "shutw"} : chn_fail(f) /\ UNCHANGED <<modeVars, stolenVars, rowVars>>
  \/ show_begin
  \/ show_copy
  \/ \E o \in PutOutcomes : show_finish(o)

(***************************************************************************)
(* The row format of line 160 on its own: a name of n characters and a     *)
(* call count v are printed with "  %s%*llu".                              *)
(***************************************************************************)
NoRow == [indent |-> 0, name_chars |-> 0, spaces |-> 0, digits |-> 0]

CallCounts == {1, 7, 10, 99, 100, 12345}

InitRow ==
  /\ row_in = [n |-> 0, v |-> 0]
  /\ row_out = NoRow

format_row(n, v) ==
  /\ row_in' = [n |-> n, v |-> v]
  /\ row_out' = RowHead(n, v)

NextRow ==
  \E n \in 1..MaxNameLen, v \in CallCounts :
     format_row(n, v) /\ UNCHANGED <<modeVars, stolenVars, reportVars>>

Init == InitMode /\ InitStolen /\ InitReport /\ InitRow

SpecMode == Init /\ [][NextMode]_vars

\* the mode commands, with a writer of the other bits running beside the
\* configuration keyword
NextCfg ==
  \/ NextMode
  \/ \E v \in 0..MaxOther :
        concurrent_cfg_writer(v) /\ UNCHANGED <<stolenVars, reportVars, rowVars>>

SpecCfg == Init /\ [][NextCfg]_vars

\* the configuration keyword, then the commands of NCli sessions and the
\* writer of the other bits
NextCli ==
  \/ \E a \in Values, extra \in BOOLEAN :
        cfg_parse_prof_tasks(a, extra) /\ UNCHANGED <<stolenVars, reportVars, rowVars>>
  \/ cfg_assign /\ UNCHANGED <<stolenVars, reportVars, rowVars>>
  \/ \E v \in 0..MaxOther : other_cfg_keyword(v) /\ UNCHANGED <<stolenVars, reportVars, rowVars>>
  \/ start_runtime /\ UNCHANGED <<stolenVars, reportVars, rowVars>>
  \/ \E r \in 1..NCli, admin \in BOOLEAN, a2 \in {"tasks", "memory"}, a3 \in Values :
        cli_parse_set_profiling(r, admin, a2, a3) /\ UNCHANGED <<stolenVars, reportVars, rowVars>>
  \/ \E r \in 1..NCli : cli_set_cas(r) /\ UNCHANGED <<stolenVars, reportVars, rowVars>>
  \/ cli_next_commands /\ UNCHANGED <<stolenVars, reportVars, rowVars>>
  \/ \E v \in 0..MaxOther : other_writer(v) /\ UNCHANGED <<stolenVars, reportVars, rowVars>>

SpecCli == Init /\ [][NextCli]_vars

\* every session inside a CAS loop keeps running
SpecCliFair ==
  SpecCli /\ \A r \in 1..NCli :
               WF_vars(cli_set_cas(r) /\ UNCHANGED <<stolenVars, reportVars, rowVars>>)

SpecStolen == Init /\ [][NextStolen]_vars

SpecReport == Init /\ [][NextReport]_vars

\* the report, the scheduler and the channel, without the mode commands
NextShow ==
  \/ start_runtime /\ UNCHANGED <<stolenVars, reportVars, rowVars>>
  \/ \E i \in Idx : sched_call(i) /\ UNCHANGED <<modeVars, stolenVars, rowVars>>
  \/ \E f \in {"write_error", "shutw"} : chn_fail(f) /\ UNCHANGED <<modeVars, stolenVars, rowVars>>
  \/ show_begin
  \/ show_copy
  \/ \E o \in PutOutcomes : show_finish(o)

(***************************************************************************)
(* The report with its driver and its channel: the driver calls the        *)
(* handler again once it has asked for room, memcpy goes on, and a channel *)
(* that is offered the text again and again ends up taking it or refusing  *)
(* it for another reason than room.                                        *)
(***************************************************************************)
SpecShowFair ==
  /\ Init /\ [][NextShow]_vars
  /\ WF_vars(show_begin /\ rx_room_blk)
  /\ WF_vars(show_copy)
  /\ SF_vars(\E o \in PutOutcomes \ {"would_block"} : show_finish(o))

SpecRow == Init /\ [][NextRow]_vars


(***************************************************************************)
(* Claims about the mode state machine, checked under SpecMode.            *)
(***************************************************************************)
Done(r) == pc[r] = "done" /\ ret[r] = "ok"
Quiet == phase = "run" /\ \A r \in Req : pc[r] \in {"idle", "done"}

\* C1: at every state the non-mode bits of `profiling` are the ones the other
\* writers wrote last: no mode transition changes them, none writes back a
\* stale value of them.
C1_OtherBitsKept == OtherBits(profiling) = Word(otherLast, 0)

\* a request whose first CAS failed has replaced the mode bits of a word whose
\* non-mode bits had been set by another writer
C1_Witness ==
  \E r \in Req : /\ Done(r) /\ retried[r]
                 /\ OtherBits(old[r]) # 0
                 /\ OtherBits(profiling) = OtherBits(old[r])
                 /\ ModeBits(new[r]) # ModeBits(old[r])

\* the modes that applying the requests of the sessions S one at a time, in some
\* order, can leave, starting from mode m
RECURSIVE Serial(_, _)
Serial(m, S) ==
  IF S = {} THEN {m}
  ELSE UNION {Serial(ModeBits(NewWord(arg[r], m)), S \ {r}) : r \in S}

\* C2: once all the requests of a group have returned, the mode bits are what
\* applying the accepted requests one at a time, in some total order, to the
\* mode bits the group started from gives.
C2_Linearizable ==
  Quiet => ModeBits(profiling) \in Serial(mode0, {r \in Req : Done(r)})

\* two requests that raced (one of them had a CAS fail), with different results
\* for the two orders
C2_Witness ==
  /\ Quiet
  /\ \A r \in Req : Done(r)
  /\ \E r \in Req : retried[r] /\ ModeBits(old[r]) # mode0
  /\ Cardinality(Serial(mode0, Req)) > 1

\* the tier `auto` selects, from line 83 and the mode values
AutoTier(m) ==
  CASE m = HA_PROF_TASKS_AON  -> HA_PROF_TASKS_AON
    [] m = HA_PROF_TASKS_AOFF -> HA_PROF_TASKS_AOFF
    [] m = HA_PROF_TASKS_ON   -> HA_PROF_TASKS_AON
    [] m = HA_PROF_TASKS_OFF  -> HA_PROF_TASKS_AOFF

\* the tier the claim states: AutoOff from On as well
AutoTierClaimed(m) ==
  CASE m = HA_PROF_TASKS_AON  -> HA_PROF_TASKS_AON
    [] m = HA_PROF_TASKS_AOFF -> HA_PROF_TASKS_AOFF
    [] m = HA_PROF_TASKS_ON   -> HA_PROF_TASKS_AOFF
    [] m = HA_PROF_TASKS_OFF  -> HA_PROF_TASKS_AOFF

\* C3 (amended): `auto` on AutoOn leaves AutoOn, on AutoOff leaves AutoOff, on
\* Off gives AutoOff and on On gives AutoOn, since On ranks >= AutoOn.
C3_AutoTier ==
  \A r \in Req : Done(r) /\ arg[r] = "auto" =>
     ModeBits(new[r]) = AutoTier(ModeBits(old[r]))

\* an `auto` that replaced the mode On, and one that replaced AutoOn
C3_Witness ==
  \E r \in Req : /\ Done(r) /\ arg[r] = "auto"
                 /\ ModeBits(old[r]) = HA_PROF_TASKS_ON
                 /\ ModeBits(profiling) = HA_PROF_TASKS_AON

\* C3 as stated: `auto` on AutoOn leaves AutoOn, on AutoOff leaves AutoOff, on
\* On or Off gives AutoOff.
C3_AutoTierAsClaimed ==
  \A r \in Req : Done(r) /\ arg[r] = "auto" =>
     ModeBits(new[r]) = AutoTierClaimed(ModeBits(old[r]))

Rejections == {"denied", "err_tasks", "err_value"}

\* C11: a "set profiling" command that lacks the admin level, names another
\* subcommand than `tasks` or gives a value that is none of on, auto, off
\* returns at once: the whole word is left as it is and no CAS loop is entered;
\* a command without the admin level is denied whatever its arguments are.
C11_RejectedNoEffect ==
  [][\A r \in Req :
       /\ pc[r] = "idle" /\ pc'[r] = "done" =>
             /\ ret'[r] \in Rejections
             /\ profiling' = profiling
             /\ old' = old /\ new' = new /\ retried' = retried
       /\ pc[r] = "idle" /\ pc'[r] # "idle" =>
             \A admin \in BOOLEAN, a2 \in {"tasks", "memory"}, a3 \in Values :
                cli_parse_set_profiling(r, admin, a2, a3) =>
                   /\ ~admin => pc'[r] = "done" /\ ret'[r] = "denied"
                   /\ admin /\ a2 # "tasks" => pc'[r] = "done" /\ ret'[r] = "err_tasks"
                   /\ admin /\ a2 = "tasks" /\ a3 \notin Accepted =>
                         pc'[r] = "done" /\ ret'[r] = "err_value"
       /\ pc[r] = "idle" /\ pc'[r] = "cas" =>
             \E a3 \in Accepted : cli_parse_set_profiling(r, TRUE, "tasks", a3)]_vars

\* a denied command has returned; the word is as the other writers and the
\* command before it left it
C11_Witness ==
  \E r \in Req : /\ pc[r] = "done" /\ ret[r] = "denied"
                 /\ profiling = Word(otherLast, mode0)
                 /\ otherLast # 0 /\ mode0 = HA_PROF_TASKS_ON

\* the mode each accepted value of the keyword sets (lines 52, 54, 56)
CfgMode(a) ==
  CASE a = "on"   -> HA_PROF_TASKS_ON
    [] a = "auto" -> HA_PROF_TASKS_AOFF
    [] a = "off"  -> HA_PROF_TASKS_OFF

C13_NoLostUpdate ==
  \A v \in 0..MaxOther : otherLast = v => OtherBits(profiling) = Word(v, 0)

\* the mode an accepted request sets, from the mode m of the word it replaces
Target(a, m) ==
  CASE a = "on"   -> HA_PROF_TASKS_ON
    [] a = "off"  -> HA_PROF_TASKS_OFF
    [] a = "auto" -> IF m >= HA_PROF_TASKS_AON THEN HA_PROF_TASKS_AON
                     ELSE HA_PROF_TASKS_AOFF

\* C15: a request leaves its CAS loop by the one step that writes the word;
\* that step replaces the word as it is then, which is the word the request
\* observed last, and sets the mode of the request's value chosen from the
\* mode of the replaced word; a failed CAS changes nothing but the request's
\* observation, which becomes the current word; a returned request writes no
\* more, and the mode bits change in no other step.
C15_ExactlyOnce ==
  [][/\ \A r \in Req :
          /\ pc[r] = "cas" /\ pc'[r] = "done" =>
                /\ profiling = old[r]
                /\ profiling' = WithMode(profiling, Target(arg[r], ModeBits(profiling)))
                /\ new'[r] = profiling' /\ ret'[r] = "ok"
          /\ pc[r] = "cas" /\ pc'[r] = "cas" /\ <<old[r], retried[r]>>' # <<old[r], retried[r]>> =>
                /\ profiling # old[r]
                /\ old'[r] = profiling /\ profiling' = profiling
          /\ pc[r] = "done" => pc'[r] \in {"done", "idle"}
     /\ phase = "run" /\ ModeBits(profiling') # ModeBits(profiling) =>
          Cardinality({r \in Req : pc[r] = "cas" /\ pc'[r] = "done"}) = 1]_vars

\* an `auto` whose first CAS failed because another request had replaced the
\* mode: its tier is the one of the mode it replaced, not of the one it saw first
C15_Witness ==
  \E r \in Req : /\ Done(r) /\ retried[r] /\ arg[r] = "auto"
                 /\ mode0 = HA_PROF_TASKS_OFF
                 /\ ModeBits(old[r]) = HA_PROF_TASKS_ON
                 /\ ModeBits(new[r]) = HA_PROF_TASKS_AON
                 /\ profiling = new[r]

\* C18: a CAS attempt fails only when the word differs from the one the request
\* observed last, and an attempt on a word that is still the observed one
\* succeeds; every request inside its loop eventually returns, unless the word
\* keeps being changed for ever.
C18_LockFree ==
  /\ [][\A r \in Req :
          /\ cli_set_cas(r) /\ pc'[r] = "cas" => profiling # old[r]
          /\ cli_set_cas(r) /\ profiling = old[r] =>
                pc'[r] = "done" /\ retried'[r] = retried[r]]_vars
  /\ \A r \in Req :
        \/ (pc[r] = "cas") ~> (pc[r] = "done")
        \/ []<><<profiling' # profiling>>_profiling

\* an `off` on a mode that was Off already returned after a CAS that failed:
\* the writer of the other bits had changed the word
C18_Witness ==
  \E r \in Req : /\ Done(r) /\ retried[r] /\ arg[r] = "off"
                 /\ ModeBits(old[r]) = HA_PROF_TASKS_OFF
                 /\ mode0 = HA_PROF_TASKS_OFF
                 /\ profiling = new[r]

\* C19: `on` gives On and `off` gives Off from every mode, and a request that
\* replaces the word a request of the same value has just written leaves it
\* as it is.
C19_ForceAndIdempotent ==
  \A r \in Req : Done(r) =>
     /\ arg[r] = "on" => ModeBits(new[r]) = HA_PROF_TASKS_ON
     /\ arg[r] = "off" => ModeBits(new[r]) = HA_PROF_TASKS_OFF
     /\ \A q \in Req : q # r /\ Done(q) /\ arg[q] = arg[r] /\ old[q] = new[r] =>
           new[q] = new[r]

\* two `auto` in a row from On: the first changed the mode, the second did not
C19_Witness ==
  \E r, q \in Req : /\ r # q /\ Done(r) /\ Done(q)
                     /\ arg[r] = "auto" /\ arg[q] = "auto"
                     /\ ModeBits(old[r]) = HA_PROF_TASKS_ON
                     /\ old[q] = new[r] /\ new[q] = new[r]
                     /\ profiling = new[q]

\* C20: before any "profiling.tasks" line is parsed the mode is AutoOff; after
\* an accepted "profiling.tasks auto" it is AutoOff whatever it was; the
\* command `auto` that replaces AutoOn or On sets AutoOn: the two differ.
C20_CfgAutoIsAutoOff ==
  /\ phase = "config" /\ cfgret = 1 => ModeBits(profiling) = HA_PROF_TASKS_AOFF
  /\ phase = "config" /\ cfg_pc = "idle" /\ cfgret = 0 /\ cfg_args.arg1 = "auto" =>
        ModeBits(profiling) = HA_PROF_TASKS_AOFF
  /\ \A r \in Req :
        Done(r) /\ arg[r] = "auto" /\ ModeBits(old[r]) >= HA_PROF_TASKS_AON =>
           /\ ModeBits(new[r]) = HA_PROF_TASKS_AON
           /\ ModeBits(new[r]) # ModeBits(CfgWord("auto", old[r]))

\* "profiling.tasks auto" parsed after "profiling.tasks on"
C20_Witness ==
  /\ phase = "config" /\ cfg_pc = "idle" /\ cfgret = 0
  /\ cfg_args = [arg1 |-> "auto", extra |-> FALSE]
  /\ ModeBits(cfg_old) = HA_PROF_TASKS_ON
  /\ ModeBits(profiling) = HA_PROF_TASKS_AOFF


(***************************************************************************)
(* Claims about the per-thread records, checked under SpecStolen.          *)
(***************************************************************************)
\* C4: for every thread, cpust_total is the exact sum, modulo the counter's
\* width, of the samples that thread recorded: outside the load/store window of
\* line 38 it equals the sum of all the samples passed, inside it the sum of
\* all but the one in progress, whatever the other threads do.
C4_ExactSum ==
  \A t \in Thr :
     IF rst_pc[t] = "loaded"
     THEN AddU64(activity[t].cpust_total, rst_stolen[t]) = recorded[t]
     ELSE activity[t].cpust_total = recorded[t]

\* a thread that has just stored a total that wrapped around, while another
\* thread is between the load and the store of its own call and holds a
\* different total
C4_Witness ==
  \E t, u \in Thr :
     /\ t # u
     /\ rst_pc[t] = "ctr_1s" /\ rst_stolen[t] > activity[t].cpust_total
     /\ activity[t].cpust_total > 0
     /\ rst_pc[u] = "loaded" /\ activity[u].cpust_total > 0
     /\ activity[u].cpust_total # activity[t].cpust_total

(***************************************************************************)
(* Claims about the report, checked under SpecReport.                      *)
(***************************************************************************)
\* the rows of a buffer: what follows the mode line and the column titles
RowsOf(buf) == IF Len(buf) <= 2 THEN <<>> ELSE SubSeq(buf, 3, Len(buf))

\* C5: every row of the buffer an invocation wrote is the row of an entry of
\* its private copy with calls >= 1, and both averages are the totals of that
\* entry divided by that same calls value, also when the table is written while
\* the report runs.
C5_NoDivisionByZero ==
  last.ran =>
    \A k \in 1..Len(RowsOf(last.tried)) :
       LET r == RowsOf(last.tried)[k]
           e == last.ranked[k]
       IN /\ e.calls >= 1
          /\ r.calls = e.calls
          /\ r.cpu_avg = e.cpu_time \div e.calls
          /\ r.lat_avg = e.lat_time \div e.calls

\* a report with a row, and after it an entry without calls, of a table that
\* was written while the report ran: the live count has moved past the row's
C5_Witness ==
  /\ last.ran /\ ~clean
  /\ Len(RowsOf(last.tried)) >= 1
  /\ Len(RowsOf(last.tried)) < TableSize
  /\ \E k \in 1..Len(RowsOf(last.tried)) :
        sched_activity[RowsOf(last.tried)[k].func].calls > RowsOf(last.tried)[k].calls

Descending(s) == \A i, j \in 1..Len(s) : i < j => s[i].calls >= s[j].calls

\* s and t hold the same entries, with the same calls at each rank
SameButTies(s, t) ==
  /\ Len(s) = Len(t)
  /\ \A k \in 1..Len(s) : s[k].calls = t[k].calls
  /\ {s[k] : k \in 1..Len(s)} = {t[k] : k \in 1..Len(t)}

\* the report ran twice (the second run is the retry of the first) on a table
\* and a mode that did not change since the first run began
RanTwice == prev.ran /\ last.ran /\ clean /\ last.putchk # "none"

SameButTiedRows(a, b) ==
  /\ Len(a) = Len(b)
  /\ Len(a) >= 2
  /\ a[1] = b[1] /\ a[2] = b[2]
  /\ SameButTies(RowsOf(a), RowsOf(b))

\* the first hand-off was refused for lack of room, the retry was accepted, and
\* neither the table nor the mode changed since the first invocation began
Retried ==
  /\ prev.ran /\ prev.putchk = "would_block"
  /\ last.ran /\ last.putchk = "accepted"
  /\ clean

ShowStep == show_begin \/ show_copy \/ \E o \in PutOutcomes : show_finish(o)

\* C9: no step of the report, whether it ends done, not-done or on a failed
\* channel, changes the table, the mode word or a per-thread record.
C9_ReportFrame ==
  [][ShowStep => UNCHANGED <<sched_activity, profiling, activity>>]_vars

\* a report that was handed over, of a table whose slots are not in rank order
\* and still are as they were
C9_Witness ==
  /\ last.ran /\ last.gave /\ clean
  /\ sched_activity[0].calls < sched_activity[1].calls
  /\ sched_activity[0].calls > 0
  /\ last.ranked[1] = sched_activity[1]
  /\ last.ranked[2] = sched_activity[0]

\* C10: an invocation that finds the write side of the channel in error or
\* shut returns done, writes and hands over nothing and asks for no wake-up.
C10_FailedChannel ==
  last.ran /\ last.flags \in {"write_error", "shutw"} =>
     /\ last.ret = 1
     /\ ~last.gave /\ last.handed = <<>> /\ last.tried = <<>>
     /\ ~last.wake

\* the channel failed after an invocation had returned not-done
C10_Witness ==
  /\ last.ran /\ last.flags = "shutw" /\ last.ret = 1
  /\ prev.ran /\ prev.ret = 0 /\ prev.wake

\* the label the header shows for each mode
ExpectedLabel(m) ==
  CASE m = HA_PROF_TASKS_ON   -> "on"
    [] m = HA_PROF_TASKS_OFF  -> "off"
    [] m = HA_PROF_TASKS_AON  -> "auto-on"
    [] m = HA_PROF_TASKS_AOFF -> "auto-off"

\* C14: while the mode has not changed since an invocation began, the label
\* the invocation read and the mode line of the text it wrote are the label of
\* the current mode, which is the mode the last completed command set; the
\* four modes have four different labels.
C14_HeaderLabel ==
  /\ show_pc = "copy" /\ clean =>
        /\ str = ExpectedLabel(ModeBits(profiling))
        /\ Done(1) => str = ExpectedLabel(ModeBits(new[1]))
  /\ last.ran /\ last.putchk # "none" /\ clean =>
        /\ last.label = ExpectedLabel(ModeBits(profiling))
        /\ last.tried[1] = [kind |-> "mode", label |-> last.label]
        /\ Done(1) => last.label = ExpectedLabel(ModeBits(new[1]))
  /\ \A m, n \in Modes : ExpectedLabel(m) = ExpectedLabel(n) => m = n

\* a report handed over after `auto` replaced On: its mode line says auto-on
C14_Witness ==
  /\ last.ran /\ last.gave /\ clean
  /\ Done(1) /\ arg[1] = "auto" /\ ModeBits(old[1]) = HA_PROF_TASKS_ON
  /\ last.handed[1] = [kind |-> "mode", label |-> "auto-on"]

\* the slots of the table that have calls
Populated == {i \in Idx : sched_activity[i].calls > 0}

\* the row r shows the fields of the entry e, and of no other
ShowsEntry(r, e) ==
  /\ r.name = (IF e.func = 0 THEN "other" ELSE "sym") /\ r.func = e.func
  /\ r.calls = e.calls
  /\ r.cpu_tot = e.cpu_time /\ r.cpu_avg = e.cpu_time \div e.calls
  /\ r.lat_tot = e.lat_time /\ r.lat_avg = e.lat_time \div e.calls

\* C16: the rows of a report of a table that did not change while it ran are
\* as many as the entries with calls, at most the size of the table; every
\* such entry has its row, whatever its slot; the rows are in non-increasing
\* order of calls, and each shows the fields of one entry.
C16_RowsAreEntries ==
  last.ran /\ last.putchk # "none" /\ clean =>
     LET rows == RowsOf(last.tried)
     IN /\ Len(rows) = Cardinality(Populated)
        /\ Len(rows) <= TableSize
        /\ \A i \in Populated :
              \E k \in 1..Len(rows) : ShowsEntry(rows[k], sched_activity[i])
        /\ \A k \in 1..Len(rows) :
              \E i \in Populated : ShowsEntry(rows[k], sched_activity[i])
        /\ Descending(rows)

\* the only entry with calls is in the last slot, after a slot without calls
C16_Witness ==
  /\ last.ran /\ last.putchk = "accepted" /\ clean
  /\ \A i \in Idx : sched_activity[i].calls > 0 <=> i = TableSize - 1
  /\ sched_activity[TableSize - 1].calls = 2
  /\ Len(RowsOf(last.handed)) = 1
  /\ RowsOf(last.handed)[1].func = TableSize - 1
  /\ RowsOf(last.handed)[1].cpu_avg = sched_activity[TableSize - 1].cpu_time \div 2

\* C17: an invocation returns not-done exactly when its hand-off was refused
\* for lack of room, and it has then asked to be called again when there is
\* room; any other invocation returns done.  From every state where the
\* handler waits for room, a later invocation returns done.
C17_NotDoneThenDone ==
  /\ [](last.ran =>
          /\ last.ret \in {0, 1}
          /\ last.ret = 0 <=> last.putchk = "would_block"
          /\ last.ret = 0 => last.wake /\ rx_room_blk)
  /\ [](rx_room_blk => show_pc = "idle")
  /\ rx_room_blk ~> (last.ran /\ last.ret = 1)

\* refused for lack of room, then called again and refused for another reason:
\* the second invocation returns done and asks for nothing
C17_Witness ==
  /\ last.ran /\ last.putchk = "closed" /\ last.ret = 1
  /\ ~last.wake /\ ~rx_room_blk
  /\ prev.ran /\ prev.putchk = "would_block" /\ prev.ret = 0 /\ prev.wake

(***************************************************************************)
(* The claim about the row format, checked under SpecRow.                  *)
(***************************************************************************)
\* C7: a name of exactly 35 characters is followed by at least one space
\* before the call count, and a name of 50 characters is printed whole with
\* exactly one space before the count, whatever the digits of the count.
C7_Alignment ==
  row_out # NoRow =>
     /\ row_in.n = 35 => row_out.spaces >= 1
     /\ row_in.n = 50 => row_out.name_chars = 50 /\ row_out.spaces = 1

=============================================================================
